---- MODULE Spec2Model ----
(***************************************************************************)
(* Model of src/server.js: an Express gateway with five lead-submission    *)
(* routes that validate and sanitize a JSON body and forward a formatted   *)
(* notification to the Telegram Bot API, behind two rate-limit policies.   *)
(***************************************************************************)
EXTENDS Integers, Sequences, FiniteSets, TLC

(***************************************************************************)
(* JavaScript values of the request body's fields.  A field is undefined,  *)
(* a truthy non-string (a non-zero number) or a string, kept as the        *)
(* sequence of its characters.                                             *)
(***************************************************************************)
Undef == [t |-> "undefined", s |-> <<>>]
Num == [t |-> "number", s |-> <<>>]
Str(chars) == [t |-> "string", s |-> chars]

\* JavaScript truthiness: undefined and '' are falsy, a non-zero number is truthy.
Truthy(v) == v.t = "number" \/ (v.t = "string" /\ v.s # <<>>)

IsString(v) == v.t = "string"

Digits == {"0", "1", "2", "3", "4", "5", "6", "7", "8", "9"}
Whitespace == {" "}
\* The letters of /[a-zA-Zа-яА-ЯёЁ]/ that the inputs of this model use.
Letters == {"A", "I", "L", "N", "S", "a", "b", "c", "d", "e", "h", "i", "n", "o", "t", "v"}

RECURSIVE Filter(_, _)
Filter(s, keep) ==
    IF s = <<>> THEN <<>>
    ELSE IF Head(s) \in keep THEN <<Head(s)>> \o Filter(Tail(s), keep)
    ELSE Filter(Tail(s), keep)

\* phone.replace(/[^\d]/g, '')
StripNonDigits(s) == Filter(s, Digits)

\* data.phone.replace(/[^\d+]/g, '')
StripNonDigitsPlus(s) == Filter(s, Digits \cup {"+"})

RECURSIVE TrimLeft(_)
TrimLeft(s) ==
    IF s # <<>> /\ Head(s) \in Whitespace THEN TrimLeft(Tail(s)) ELSE s

RECURSIVE TrimRight(_)
TrimRight(s) ==
    IF s # <<>> /\ s[Len(s)] \in Whitespace
    THEN TrimRight(SubSeq(s, 1, Len(s) - 1))
    ELSE s

\* String.prototype.trim
Trim(s) == TrimLeft(TrimRight(s))

\* xss(): the angle brackets of markup are escaped to entities; xss(undefined) is ''.
RECURSIVE XssChars(_)
XssChars(s) ==
    IF s = <<>> THEN <<>>
    ELSE (IF Head(s) = "<" THEN <<"&lt;">>
          ELSE IF Head(s) = ">" THEN <<"&gt;">>
          ELSE <<Head(s)>>) \o XssChars(Tail(s))

Xss(v) == IF v.t = "undefined" THEN <<>> ELSE XssChars(v.s)

\* /^[a-zA-Zа-яА-ЯёЁ\s-]+$/.test(name)
NameRegex(s) ==
    /\ s # <<>>
    /\ \A i \in 1..Len(s) : s[i] \in Letters \cup Whitespace \cup {"-"}

\* validator.isMobilePhone(cleanPhone, 'any', {strictMode: false}), by the
\* ru-RU pattern /^(\+?7|8)?9\d{9}$/ of the locales it tries.
IsMobilePhone(s) ==
    \E p \in {<<>>, <<"+", "7">>, <<"7">>, <<"8">>} :
        /\ Len(s) = Len(p) + 10
        /\ SubSeq(s, 1, Len(p)) = p
        /\ s[Len(p) + 1] = "9"
        /\ \A i \in (Len(p) + 1)..Len(s) : s[i] \in Digits

NameMinLen == 2
NameMaxLen == 50
AddressMinLen == 5
AddressMaxLen == 200
CommentMaxLen == 500
PhoneMinDigits == 9

\* The loose phone check of the four short handlers.
LoosePhoneInvalid(phone) ==
    \/ ~Truthy(phone)
    \/ ~IsString(phone)
    \/ Len(StripNonDigits(phone.s)) < PhoneMinDigits

\* The loose name check of request-wimax and submit-connection-request.
LooseNameInvalid(name) ==
    \/ ~Truthy(name)
    \/ ~IsString(name)
    \/ Len(name.s) < NameMinLen
    \/ Len(name.s) > NameMaxLen

\* validateSubmissionData: the violations, in the order the checks run.
validateSubmissionData(data) ==
    (IF ~Truthy(data.name) \/ ~IsString(data.name) THEN <<"name_required">>
     ELSE IF Len(data.name.s) < NameMinLen \/ Len(data.name.s) > NameMaxLen
          THEN <<"name_length">>
     ELSE IF ~NameRegex(data.name.s) THEN <<"name_chars">>
     ELSE <<>>)
    \o
    (IF ~Truthy(data.phone) \/ ~IsString(data.phone) THEN <<"phone_required">>
     ELSE IF ~IsMobilePhone(StripNonDigitsPlus(data.phone.s)) THEN <<"phone_invalid">>
     ELSE <<>>)
    \o
    (IF ~Truthy(data.address) \/ ~IsString(data.address) THEN <<"address_required">>
     ELSE IF Len(data.address.s) < AddressMinLen \/ Len(data.address.s) > AddressMaxLen
          THEN <<"address_length">>
     ELSE <<>>)
    \o
    (IF ~Truthy(data.selectedTariff) THEN <<"tariff_required">> ELSE <<>>)
    \o
    (IF Truthy(data.comment) /\ IsString(data.comment)
        /\ Len(data.comment.s) > CommentMaxLen
     THEN <<"comment_length">> ELSE <<>>)

\* x?.trim() raises a TypeError when x is a non-string that has no trim method.
TrimThrows(v) == v.t = "number"

\* xss(x?.trim())
XssTrim(v) == IF v.t = "string" THEN XssChars(Trim(v.s)) ELSE Xss(v)

\* sanitizeData raises when a field it trims is a truthy non-string.
sanitizeDataThrows(data) ==
    \/ TrimThrows(data.name)
    \/ TrimThrows(data.phone)
    \/ TrimThrows(data.address)
    \/ TrimThrows(data.selectedTariff)
    \/ (Truthy(data.comment) /\ TrimThrows(data.comment))

sanitizeData(data) ==
    [name |-> XssTrim(data.name),
     phone |-> XssTrim(data.phone),
     address |-> XssTrim(data.address),
     selectedTariff |-> XssTrim(data.selectedTariff),
     comment |-> IF Truthy(data.comment) THEN XssTrim(data.comment) ELSE <<>>]


(***************************************************************************)
(* Rate limiting (express-rate-limit with its in-memory store): one        *)
(* counter with a reset timestamp per policy and client identity.          *)
(***************************************************************************)
GeneralWindowMs == 15 * 60 * 1000
GeneralMax == 5
SubmitWindowMs == 60 * 60 * 1000
SubmitMax == 3

NoEntry == [totalHits |-> 0, resetTime |-> 0]

\* The store's increment: an entry whose window has elapsed is recreated.
Increment(entry, t, windowMs) ==
    IF entry.resetTime <= t
    THEN [totalHits |-> 1, resetTime |-> t + windowMs]
    ELSE [entry EXCEPT !.totalHits = @ + 1]

\* The middleware's comparison of the incremented counter with max.
Exceeded(entry, max) == entry.totalHits > max

\* Entries whose window has elapsed are dropped from the store.
Expire(store, t) ==
    [c \in DOMAIN store |-> IF store[c].resetTime <= t THEN NoEntry ELSE store[c]]

(***************************************************************************)
(* Requests, responses and outbound messages.                              *)
(***************************************************************************)
EmptyBody ==
    [name |-> Undef, phone |-> Undef, address |-> Undef,
     selectedTariff |-> Undef, tariff |-> Undef, comment |-> Undef]

NoMsg == [kind |-> "none", fields |-> <<>>, time |-> -1, parse_mode |-> "none"]
NoOutcome == [kind |-> "none", json |-> FALSE, description |-> "none"]

IdleReq ==
    [pc |-> "idle", client |-> "none", route |-> "none", body |-> EmptyBody,
     validated |-> FALSE, sanitized |-> "no", sends |-> 0, msg |-> NoMsg, outcome |-> NoOutcome,
     responses |-> 0, status |-> 0, success |-> "none", text |-> "none",
     details |-> <<>>]

SubmissionRoutes ==
    {"submit-application", "request-callback", "request-ngn-callback",
     "request-wimax", "submit-connection-request"}

\* now: the clock; config: which credentials the environment sets; general and
\* submit: the stores of the two limiters; req: the request of each connection.
\* passed and spent record, for the properties, the times of the passages
\* through each gate and whether a client has used up its submission quota.
VARIABLES now, config, general, submit, req, passed, spent

vars == <<now, config, general, submit, req, passed, spent>>

\* !botToken || !chatId
NotConfigured == ~config.botToken \/ ~config.chatId

\* res.status(status).json({success, error | message, details})
Respond(rq, status, success, text, details) ==
    [rq EXCEPT !.pc = "done", !.responses = @ + 1, !.status = status,
               !.success = success, !.text = text, !.details = details]

\* An exception that leaves an async handler: Express 5 forwards the rejected
\* promise to the error handler, Express 4 leaves it unhandled and nothing is sent.
Fault(rq, forwarded) ==
    IF forwarded
    THEN Respond(rq, 500, "absent", "Internal server error", <<>>)
    ELSE [rq EXCEPT !.pc = "unhandled"]

\* The handler has run its sanitize step, which returned or raised a TypeError.
Sanitized(rq, raised) ==
    [rq EXCEPT !.sanitized = IF raised THEN "raised" ELSE "ok"]

\* await fetch(.../sendMessage, {method: 'POST', body}): the one outbound call.
Fetch(rq, msg) == [rq EXCEPT !.pc = "fetching", !.sends = @ + 1, !.msg = msg]

\* The placeholder of sendToTelegram's template: data.comment || "Net".
CommentPlaceholder == <<"N", "e", "t">>
\* The placeholder of submit-connection-request's cleanData.
CleanCommentPlaceholder == <<"n", "e", "t">>


\* sendToTelegram's template (submit-application).
ApplicationMessage(data, t) ==
    [kind |-> "application",
     fields |-> << <<"name", data.name>>, <<"phone", data.phone>>,
                   <<"address", data.address>>, <<"tariff", data.selectedTariff>>,
                   <<"comment", IF data.comment # <<>> THEN data.comment
                                ELSE CommentPlaceholder>> >>,
     time |-> t, parse_mode |-> "HTML"]

CallbackMessage(sanitizedPhone) ==
    [kind |-> "callback", fields |-> << <<"phone", sanitizedPhone>> >>,
     time |-> -1, parse_mode |-> "none"]

NgnMessage(sanitizedPhone, sanitizedTariff, t) ==
    [kind |-> "ngn",
     fields |-> << <<"phone", sanitizedPhone>>, <<"tariff", sanitizedTariff>> >>,
     time |-> t, parse_mode |-> "HTML"]

WimaxMessage(cleanName, cleanPhone, t) ==
    [kind |-> "wimax",
     fields |-> << <<"name", cleanName>>, <<"phone", cleanPhone>> >>,
     time |-> t, parse_mode |-> "HTML"]

ConnectionMessage(cleanData, t) ==
    [kind |-> "connection",
     fields |-> << <<"name", cleanData.name>>, <<"phone", cleanData.phone>>,
                   <<"address", cleanData.address>>, <<"tariff", cleanData.tariff>>,
                   <<"comment", cleanData.comment>> >>,
     time |-> t, parse_mode |-> "HTML"]

\* The inline validation of submit-connection-request.
ConnectionErrors(b) ==
    (IF LooseNameInvalid(b.name) THEN <<"name_invalid">> ELSE <<>>)
    \o (IF LoosePhoneInvalid(b.phone) THEN <<"phone_invalid">> ELSE <<>>)
    \o (IF ~Truthy(b.address) \/ ~IsString(b.address)
           \/ Len(b.address.s) < AddressMinLen \/ Len(b.address.s) > AddressMaxLen
        THEN <<"address_invalid">> ELSE <<>>)
    \o (IF ~Truthy(b.tariff) \/ ~IsString(b.tariff)
        THEN <<"tariff_missing">> ELSE <<>>)
    \o (IF Truthy(b.comment) /\ IsString(b.comment) /\ Len(b.comment.s) > CommentMaxLen
        THEN <<"comment_too_long">> ELSE <<>>)

\* Mutant: the comment is put into cleanData as the client sent it.
ConnectionCleanDataRawComment(b) ==
    [name |-> XssTrim(b.name), phone |-> XssTrim(b.phone),
     address |-> XssTrim(b.address), tariff |-> XssTrim(b.tariff),
     comment |-> IF Truthy(b.comment) THEN b.comment.s
                 ELSE CleanCommentPlaceholder]

ConnectionCleanData(b) ==
    [name |-> XssTrim(b.name), phone |-> XssTrim(b.phone),
     address |-> XssTrim(b.address), tariff |-> XssTrim(b.tariff),
     comment |-> IF Truthy(b.comment) THEN XssTrim(b.comment)
                 ELSE CleanCommentPlaceholder]

\* The checks of request-callback, request-ngn-callback and request-wimax: each
\* returns at its first violation.
CallbackErrors(b) ==
    IF LoosePhoneInvalid(b.phone) THEN <<"enter_valid_phone">> ELSE <<>>

NgnErrors(b) ==
    IF LoosePhoneInvalid(b.phone) THEN <<"enter_valid_phone">>
    ELSE IF ~Truthy(b.selectedTariff) \/ ~IsString(b.selectedTariff)
    THEN <<"choose_tariff">>
    ELSE <<>>

WimaxErrors(b) ==
    IF LooseNameInvalid(b.name) THEN <<"enter_valid_name">>
    ELSE IF LoosePhoneInvalid(b.phone) THEN <<"enter_valid_phone">>
    ELSE <<>>

\* The violations the handler of a route finds in a body.
RouteErrors(route, b) ==
    CASE route = "submit-application" -> validateSubmissionData(b)
      [] route = "request-callback" -> CallbackErrors(b)
      [] route = "request-ngn-callback" -> NgnErrors(b)
      [] route = "request-wimax" -> WimaxErrors(b)
      [] route = "submit-connection-request" -> ConnectionErrors(b)
      [] OTHER -> <<>>

(***************************************************************************)
(* The handlers, each from its entry to its first await or its response.   *)
(***************************************************************************)
\* Mutant: the 400 response is sent without return, and the handler goes on.
SubmitApplicationStepNoReturn(rq, t) ==
    LET errors == validateSubmissionData(rq.body)
        v == [rq EXCEPT !.validated = TRUE]
        c == Sanitized(v, sanitizeDataThrows(rq.body))
    IN  IF sanitizeDataThrows(rq.body) \/ NotConfigured
        THEN IF errors # <<>>
             THEN Respond(c, 400, "false", "validation_error", errors)
             ELSE Respond(c, 500, "false", "application_failed", <<>>)
        ELSE IF errors # <<>>
        THEN Fetch(Respond(c, 400, "false", "validation_error", errors),
                   ApplicationMessage(sanitizeData(rq.body), t))
        ELSE Fetch(c, ApplicationMessage(sanitizeData(rq.body), t))

SubmitApplicationStep(rq, t) ==
    LET errors == validateSubmissionData(rq.body)
        v == [rq EXCEPT !.validated = TRUE]
        c == Sanitized(v, sanitizeDataThrows(rq.body))
    IN  IF errors # <<>>
        THEN Respond(v, 400, "false", "validation_error", errors)
        ELSE IF sanitizeDataThrows(rq.body) \/ NotConfigured
        THEN Respond(c, 500, "false", "application_failed", <<>>)
        ELSE Fetch(c, ApplicationMessage(sanitizeData(rq.body), t))

\* Mutant: the credentials are checked before the phone number.
RequestCallbackStepConfigFirst(rq) ==
    LET errors == CallbackErrors(rq.body)
        v == [rq EXCEPT !.validated = TRUE]
    IN  IF NotConfigured
        THEN Respond(rq, 500, "false", "telegram_not_configured", <<>>)
        ELSE IF errors # <<>>
        THEN Respond(v, 400, "false", errors[1], <<>>)
        ELSE Fetch(Sanitized(v, FALSE), CallbackMessage(XssTrim(rq.body.phone)))

\* The fields a short handler trims have passed its typeof check, so its
\* xss(x.trim()) calls return.
RequestCallbackStep(rq) ==
    LET errors == CallbackErrors(rq.body)
        v == [rq EXCEPT !.validated = TRUE]
        c == Sanitized(v, FALSE)
    IN  IF errors # <<>>
        THEN Respond(v, 400, "false", errors[1], <<>>)
        ELSE IF NotConfigured
        THEN Respond(c, 500, "false", "telegram_not_configured", <<>>)
        ELSE Fetch(c, CallbackMessage(XssTrim(rq.body.phone)))

RequestNgnCallbackStep(rq, t) ==
    LET errors == NgnErrors(rq.body)
        v == [rq EXCEPT !.validated = TRUE]
        b == rq.body
        c == Sanitized(v, FALSE)
    IN  IF errors # <<>>
        THEN Respond(v, 400, "false", errors[1], <<>>)
        ELSE IF NotConfigured
        THEN Respond(c, 500, "false", "token_or_id_not_configured", <<>>)
        ELSE Fetch(c, NgnMessage(XssTrim(b.phone), XssTrim(b.selectedTariff), t))

RequestWimaxStep(rq, t) ==
    LET errors == WimaxErrors(rq.body)
        v == [rq EXCEPT !.validated = TRUE]
        b == rq.body
        c == Sanitized(v, FALSE)
    IN  IF errors # <<>>
        THEN Respond(v, 400, "false", errors[1], <<>>)
        ELSE IF NotConfigured
        THEN Respond(c, 500, "false", "token_or_id_not_configured", <<>>)
        ELSE Fetch(c, WimaxMessage(XssTrim(b.name), XssTrim(b.phone), t))

\* comment.trim() runs outside any try block.
SubmitConnectionRequestStep(rq, t, forwarded) ==
    LET errors == ConnectionErrors(rq.body)
        v == [rq EXCEPT !.validated = TRUE]
    IN  IF errors # <<>>
        THEN Respond(v, 400, "false", "validation_error", errors)
        ELSE IF Truthy(rq.body.comment) /\ TrimThrows(rq.body.comment)
        THEN Fault(Sanitized(v, TRUE), forwarded)
        ELSE IF NotConfigured
        THEN Respond(Sanitized(v, FALSE), 500, "false",
                     "token_or_chat_id_not_configured", <<>>)
        ELSE Fetch(Sanitized(v, FALSE),
                   ConnectionMessage(ConnectionCleanData(rq.body), t))

\* Mutant: the catch block returns error.message, which holds the description
\* the messaging service gave or the name of the network failure.
SubmitApplicationResumeLeaky(rq, o) ==
    IF o.kind = "ok" /\ o.json
    THEN Respond(rq, 200, "true", "application_sent", <<>>)
    ELSE Respond(rq, 500, "false", o.description, <<>>)

\* sendToTelegram after its fetch settles, and the handler around it: a rejected
\* fetch, a non-ok status and an unparsable response.json() all reach the catch.
SubmitApplicationResume(rq, o) ==
    IF o.kind = "ok" /\ o.json
    THEN Respond(rq, 200, "true", "application_sent", <<>>)
    ELSE Respond(rq, 500, "false", "application_failed", <<>>)

\* Mutant: a failed send is sent once more before the handler gives up.
InlineResumeRetry(rq, o) ==
    IF o.kind = "ok"
    THEN Respond(rq, 200, "true", "request_sent", <<>>)
    ELSE IF rq.sends < 2
    THEN Fetch(rq, rq.msg)
    ELSE Respond(rq, 500, "false", "error_sending_to_telegram", <<>>)

\* The four inline handlers after their fetch settles.
InlineResume(rq, o) ==
    IF o.kind = "ok"
    THEN Respond(rq, 200, "true",
                 IF rq.route = "request-callback" THEN "request_sent!"
                 ELSE "request_sent", <<>>)
    ELSE Respond(rq, 500, "false",
                 IF rq.route = "submit-connection-request"
                 THEN "telegram_send_error" ELSE "error_sending_to_telegram", <<>>)


(***************************************************************************)
(* Actions.                                                                *)
(***************************************************************************)
\* The clock advances by half a general window; elapsed entries leave the stores.
StepMs == GeneralWindowMs \div 2

\* The passages through a gate that can share an interval of length w with t.
Recent(log, t, w) ==
    LET Keep(x) == x > t - w
    IN  SelectSeq(log, Keep)

\* Mutant: the count of a request is lost while another request is in flight.
GeneralHitLost(c) ==
    IF general[c].resetTime > now
       /\ \E q \in DOMAIN req : req[q].pc \in {"routed", "handler", "fetching"}
    THEN general[c]
    ELSE Increment(general[c], now, GeneralWindowMs)

\* Mutant: the submission policy is given the window of the general policy.
SubmitHitShortWindow(c) == Increment(submit[c], now, GeneralWindowMs)

\* The counters of client c after the limiter has counted one more request.
GeneralHit(c) == Increment(general[c], now, GeneralWindowMs)

SubmitHit(c) == Increment(submit[c], now, SubmitWindowMs)

\* Mutant: the limiter answers 429 and calls next() all the same.
LimitedThenNext(rq, text) ==
    [Respond(rq, 429, "absent", text, <<>>) EXCEPT !.pc = "routed"]

\* The limiter's answer to a request over its limit: 429 and its message object.
Limited(rq, text) == Respond(rq, 429, "absent", text, <<>>)

\* Mutant: the health route is registered ahead of app.use('/api/', limiter),
\* so a health probe is answered without being counted.
ReceiveProbeUncounted(r, c, route, body, cap) ==
    /\ req[r].pc \in {"idle", "done"}
    /\ general[c].totalHits < cap
    /\ LET e == IF route = "health" THEN general[c] ELSE GeneralHit(c)
           fresh == [IdleReq EXCEPT !.client = c, !.route = route, !.body = body]
       IN  /\ general' = [general EXCEPT ![c] = e]
           /\ IF route # "health" /\ Exceeded(e, GeneralMax)
              THEN /\ req' = [req EXCEPT ![r] =
                                Limited(fresh, "too_many_requests")]
                   /\ passed' = passed
              ELSE /\ req' = [req EXCEPT ![r] = [fresh EXCEPT !.pc = "routed"]]
                   /\ passed' = [passed EXCEPT !.general[c] = Append(@, now)]
    /\ UNCHANGED <<now, config, submit, spent>>

\* A request under /api/ arrives and passes app.use('/api/', limiter).
Receive(r, c, route, body, cap) ==
    /\ req[r].pc \in {"idle", "done"}
    /\ general[c].totalHits < cap
    /\ LET e == GeneralHit(c)
           fresh == [IdleReq EXCEPT !.client = c, !.route = route, !.body = body]
       IN  /\ general' = [general EXCEPT ![c] = e]
           /\ IF Exceeded(e, GeneralMax)
              THEN /\ req' = [req EXCEPT ![r] =
                                Limited(fresh, "too_many_requests")]
                   /\ passed' = passed
              ELSE /\ req' = [req EXCEPT ![r] = [fresh EXCEPT !.pc = "routed"]]
                   /\ passed' = [passed EXCEPT !.general[c] = Append(@, now)]
    /\ UNCHANGED <<now, config, submit, spent>>

\* submitLimiter, the route middleware of submit-application.
SubmitLimiter(r, cap) ==
    /\ req[r].pc = "routed"
    /\ req[r].route = "submit-application"
    /\ submit[req[r].client].totalHits < cap
    /\ LET c == req[r].client
           e == SubmitHit(c)
       IN  /\ submit' = [submit EXCEPT ![c] = e]
           /\ spent' = [spent EXCEPT ![c] =
                           IF e.totalHits >= SubmitMax THEN "spent"
                           ELSE IF @ = "spent" THEN "renewed"
                           ELSE @]
           /\ IF Exceeded(e, SubmitMax)
              THEN /\ req' = [req EXCEPT ![r] =
                                Limited(@, "submit_limit_exceeded")]
                   /\ passed' = passed
              ELSE /\ req' = [req EXCEPT ![r].pc = "handler"]
                   /\ passed' = [passed EXCEPT !.submit[c] = Append(@, now)]
    /\ UNCHANGED <<now, config, general>>

\* Mutant: the routes are registered ahead of the limiters, so a handler also
\* runs for a request the limiter has answered.
DispatchedAnyway(rq, route) ==
    /\ rq.route = route
    /\ \/ rq.pc \in {"routed", "handler"}
       \/ rq.pc = "done" /\ rq.status = 429

\* The request has reached the handler of its route.
Dispatched(rq, route) ==
    /\ rq.route = route
    /\ rq.pc = IF route = "submit-application" THEN "handler" ELSE "routed"

SubmitApplication(r) ==
    /\ Dispatched(req[r], "submit-application")
    /\ req' = [req EXCEPT ![r] = SubmitApplicationStep(@, now)]
    /\ UNCHANGED <<now, config, general, submit, passed, spent>>

RequestCallback(r) ==
    /\ Dispatched(req[r], "request-callback")
    /\ req' = [req EXCEPT ![r] = RequestCallbackStep(@)]
    /\ UNCHANGED <<now, config, general, submit, passed, spent>>

RequestNgnCallback(r) ==
    /\ Dispatched(req[r], "request-ngn-callback")
    /\ req' = [req EXCEPT ![r] = RequestNgnCallbackStep(@, now)]
    /\ UNCHANGED <<now, config, general, submit, passed, spent>>

RequestWimax(r) ==
    /\ Dispatched(req[r], "request-wimax")
    /\ req' = [req EXCEPT ![r] = RequestWimaxStep(@, now)]
    /\ UNCHANGED <<now, config, general, submit, passed, spent>>

SubmitConnectionRequest(r) ==
    /\ Dispatched(req[r], "submit-connection-request")
    /\ \E forwarded \in BOOLEAN :
           req' = [req EXCEPT ![r] = SubmitConnectionRequestStep(@, now, forwarded)]
    /\ UNCHANGED <<now, config, general, submit, passed, spent>>

\* GET /api/health
Health(r) ==
    /\ Dispatched(req[r], "health")
    /\ req' = [req EXCEPT ![r] = Respond(@, 200, "absent", "OK", <<>>)]
    /\ UNCHANGED <<now, config, general, submit, passed, spent>>

\* Any other request under /api/ falls through to the 404 handler.
NotFound(r) ==
    /\ Dispatched(req[r], "unmatched")
    /\ req' = [req EXCEPT ![r] = Respond(@, 404, "absent", "Endpoint not found", <<>>)]
    /\ UNCHANGED <<now, config, general, submit, passed, spent>>

\* The outcomes of the outbound call: a 2xx or a non-2xx response, whose body
\* parses as JSON or not and may carry a description, or a network failure.
FetchOutcomes ==
    {[kind |-> "ok", json |-> TRUE, description |-> "none"],
     [kind |-> "ok", json |-> FALSE, description |-> "none"],
     [kind |-> "notok", json |-> TRUE, description |-> "none"],
     [kind |-> "notok", json |-> TRUE, description |-> "Bad Request"],
     [kind |-> "notok", json |-> TRUE, description |-> "Forbidden"],
     [kind |-> "notok", json |-> FALSE, description |-> "none"],
     [kind |-> "network", json |-> FALSE, description |-> "ECONNREFUSED"],
     [kind |-> "network", json |-> FALSE, description |-> "ETIMEDOUT"]}

\* The messaging service answers (or the connection fails) and the suspended
\* handler runs to its response.
Deliver(r, o) ==
    /\ req[r].pc = "fetching"
    /\ req' = [req EXCEPT ![r] =
                 IF @.route = "submit-application"
                 THEN SubmitApplicationResume([@ EXCEPT !.outcome = o], o)
                 ELSE InlineResume([@ EXCEPT !.outcome = o], o)]
    /\ UNCHANGED <<now, config, general, submit, passed, spent>>

Tick(maxSteps) ==
    /\ now < maxSteps * StepMs
    /\ now' = now + StepMs
    /\ general' = Expire(general, now')
    /\ submit' = Expire(submit, now')
    /\ passed' = [general |-> [c \in DOMAIN general |->
                                 Recent(passed.general[c], now', GeneralWindowMs)],
                  submit |-> [c \in DOMAIN submit |->
                                 Recent(passed.submit[c], now', SubmitWindowMs)]]
    /\ UNCHANGED <<config, req, spent>>

\* Every handler step of request r that needs nothing from outside the process.
HandlerStep(r) ==
    \/ SubmitApplication(r)
    \/ RequestCallback(r)
    \/ RequestNgnCallback(r)
    \/ RequestWimax(r)
    \/ SubmitConnectionRequest(r)
    \/ Health(r)
    \/ NotFound(r)

(***************************************************************************)
(* The process after construction: no request, empty stores, and the       *)
(* credentials as the environment of the process set them.                 *)
(***************************************************************************)
Configs == [botToken : BOOLEAN, chatId : BOOLEAN]

InitFor(clients, slots, configs) ==
    /\ now = 0
    /\ config \in configs
    /\ general = [c \in clients |-> NoEntry]
    /\ submit = [c \in clients |-> NoEntry]
    /\ req = [r \in slots |-> IdleReq]
    /\ passed = [general |-> [c \in clients |-> <<>>],
                 submit |-> [c \in clients |-> <<>>]]
    /\ spent = [c \in clients |-> "unspent"]

(***************************************************************************)
(* The request bodies that clients post.                                   *)
(***************************************************************************)
Ivan == Str(<<"I", "v", "a", "n">>)
ShortName == Str(<<"A">>)
GoodPhone == Str(<<"+", "7", "9", "9", "9", "1", "2", "3", "4", "5", "6", "7">>)
ShortPhone == Str(<<"1", "2", "3", "4", "5">>)
Lenina == Str(<<"L", "e", "n", "i", "n", "a", " ", "1">>)
ShortAddress == Str(<<"a", "b", "c">>)
Standard == Str(<<"S", "t", "d">>)
EmptyComment == Str(<<>>)
BlankComment == Str(<<" ", " ">>)
MarkupComment == Str(<<"<", "b", ">", "h", "i">>)

\* The fields in which two bodies differ.
Differing(b1, b2) == {f \in DOMAIN b1 : b1[f] # b2[f]}

GoodApplication ==
    [EmptyBody EXCEPT !.name = Ivan, !.phone = GoodPhone, !.address = Lenina,
                      !.selectedTariff = Standard]

GoodConnection ==
    [EmptyBody EXCEPT !.name = Ivan, !.phone = GoodPhone, !.address = Lenina,
                      !.tariff = Standard]

\* The well-formed application with at most two of its fields changed, and the
\* body {name: "A"} that names nothing else.
ApplicationBodies ==
    {b \in {[EmptyBody EXCEPT !.name = n, !.phone = p, !.address = a,
                              !.selectedTariff = t, !.comment = k] :
               n \in {ShortName, Ivan}, p \in {ShortPhone, GoodPhone},
               a \in {ShortAddress, Lenina}, t \in {Undef, Num, Standard},
               k \in {Undef, Num, EmptyComment, BlankComment, MarkupComment}} :
        Cardinality(Differing(b, GoodApplication)) <= 2}
    \cup {[EmptyBody EXCEPT !.name = ShortName]}

ConnectionBodies ==
    {b \in {[EmptyBody EXCEPT !.name = n, !.phone = p, !.address = a,
                              !.tariff = t, !.comment = k] :
               n \in {ShortName, Ivan}, p \in {ShortPhone, GoodPhone},
               a \in {ShortAddress, Lenina}, t \in {Undef, Num, Standard},
               k \in {Undef, Num, EmptyComment, BlankComment, MarkupComment}} :
        Cardinality(Differing(b, GoodConnection)) <= 2}
    \cup {[EmptyBody EXCEPT !.name = ShortName]}

CallbackBodies ==
    {[EmptyBody EXCEPT !.phone = p] : p \in {Undef, Num, ShortPhone, GoodPhone}}

NgnBodies ==
    {[EmptyBody EXCEPT !.phone = p, !.selectedTariff = t] :
        p \in {Undef, Num, ShortPhone, GoodPhone}, t \in {Undef, Num, Standard}}

WimaxBodies ==
    {[EmptyBody EXCEPT !.name = n, !.phone = p] :
        n \in {Undef, ShortName, Ivan}, p \in {Undef, Num, ShortPhone, GoodPhone}}

Posts ==
    {[route |-> "submit-application", body |-> b] : b \in ApplicationBodies}
    \cup {[route |-> "submit-connection-request", body |-> b] : b \in ConnectionBodies}
    \cup {[route |-> "request-callback", body |-> b] : b \in CallbackBodies}
    \cup {[route |-> "request-ngn-callback", body |-> b] : b \in NgnBodies}
    \cup {[route |-> "request-wimax", body |-> b] : b \in WimaxBodies}
    \cup {[route |-> "health", body |-> EmptyBody],
          [route |-> "unmatched", body |-> EmptyBody]}

(***************************************************************************)
(* Spec: one client and one connection, every body of Posts, every         *)
(* configuration and every outcome of the outbound call.                   *)
(***************************************************************************)
MaxHits == 2
MaxSteps == 1

Init == InitFor({"ip1"}, {1}, Configs)

Next ==
    \/ \E r \in DOMAIN req, c \in DOMAIN general, p \in Posts :
           Receive(r, c, p.route, p.body, MaxHits)
    \/ \E r \in DOMAIN req : SubmitLimiter(r, MaxHits)
    \/ \E r \in DOMAIN req : SubmitApplication(r)
    \/ \E r \in DOMAIN req : RequestCallback(r)
    \/ \E r \in DOMAIN req : RequestNgnCallback(r)
    \/ \E r \in DOMAIN req : RequestWimax(r)
    \/ \E r \in DOMAIN req : SubmitConnectionRequest(r)
    \/ \E r \in DOMAIN req : Health(r)
    \/ \E r \in DOMAIN req : NotFound(r)
    \/ \E r \in DOMAIN req, o \in FetchOutcomes : Deliver(r, o)
    \/ Tick(MaxSteps)

Spec == Init /\ [][Next]_vars

\* The event loop runs every step that waits for nothing outside the process;
\* nothing obliges the messaging service to answer, and fetch is given no
\* signal or timeout.
FairSpec ==
    /\ Spec
    /\ WF_vars(\E r \in DOMAIN req : SubmitLimiter(r, MaxHits))
    /\ WF_vars(\E r \in DOMAIN req : HandlerStep(r))


(***************************************************************************)
(* SpecRL: the rate limiters over a full submission window, for one client *)
(* with one connection open at a time.                                     *)
(***************************************************************************)
PostsRL ==
    {[route |-> "submit-application", body |-> GoodApplication],
     [route |-> "health", body |-> EmptyBody]}

OutcomesRL ==
    {[kind |-> "ok", json |-> TRUE, description |-> "none"],
     [kind |-> "network", json |-> FALSE, description |-> "ETIMEDOUT"]}

MaxRejected == 1
MaxStepsRL == 8

InitRL == InitFor({"ip1"}, {1}, {[botToken |-> TRUE, chatId |-> TRUE]})

NextRL ==
    \/ \E r \in DOMAIN req, c \in DOMAIN general, p \in PostsRL :
           Receive(r, c, p.route, p.body, GeneralMax + MaxRejected)
    \/ \E r \in DOMAIN req : SubmitLimiter(r, SubmitMax + MaxRejected)
    \/ \E r \in DOMAIN req : SubmitApplication(r)
    \/ \E r \in DOMAIN req : Health(r)
    \/ \E r \in DOMAIN req, o \in OutcomesRL : Deliver(r, o)
    \/ Tick(MaxStepsRL)

SpecRL == InitRL /\ [][NextRL]_vars


(***************************************************************************)
(* SpecConc: concurrent requests of one client, interleaved at every step  *)
(* between the gates, the handlers and the outbound calls.                 *)
(***************************************************************************)
MaxStepsConc == 2

InitConc == InitFor({"ip1"}, {1, 2}, {[botToken |-> TRUE, chatId |-> TRUE]})

NextConc ==
    \/ \E r \in DOMAIN req, c \in DOMAIN general, p \in PostsRL :
           Receive(r, c, p.route, p.body, GeneralMax + MaxRejected)
    \/ \E r \in DOMAIN req : SubmitLimiter(r, SubmitMax + MaxRejected)
    \/ \E r \in DOMAIN req : SubmitApplication(r)
    \/ \E r \in DOMAIN req : Health(r)
    \/ \E r \in DOMAIN req, o \in OutcomesRL : Deliver(r, o)
    \/ Tick(MaxStepsConc)

SpecConc == InitConc /\ [][NextConc]_vars


(***************************************************************************)
(* SpecQuota: one client sending requests of every outcome under /api/: a  *)
(* health probe, an unmatched path, a callback request that is rejected or *)
(* forwarded, and a well-formed application.                               *)
(***************************************************************************)
PostsQuota ==
    {[route |-> "submit-application", body |-> GoodApplication],
     [route |-> "request-callback", body |-> [EmptyBody EXCEPT !.phone = GoodPhone]],
     [route |-> "request-callback", body |-> [EmptyBody EXCEPT !.phone = ShortPhone]],
     [route |-> "health", body |-> EmptyBody],
     [route |-> "unmatched", body |-> EmptyBody]}

MaxStepsQuota == 2

InitQuota == InitFor({"ip1"}, {1}, {[botToken |-> TRUE, chatId |-> TRUE]})

NextQuota ==
    \/ \E r \in DOMAIN req, c \in DOMAIN general, p \in PostsQuota :
           Receive(r, c, p.route, p.body, GeneralMax + MaxRejected)
    \/ \E r \in DOMAIN req : SubmitLimiter(r, SubmitMax + MaxRejected)
    \/ \E r \in DOMAIN req : SubmitApplication(r)
    \/ \E r \in DOMAIN req : RequestCallback(r)
    \/ \E r \in DOMAIN req : Health(r)
    \/ \E r \in DOMAIN req : NotFound(r)
    \/ \E r \in DOMAIN req, o \in OutcomesRL : Deliver(r, o)
    \/ Tick(MaxStepsQuota)

SpecQuota == InitQuota /\ [][NextQuota]_vars


(***************************************************************************)
(* SpecIds: two client identities, each with its own counters in the two   *)
(* stores, sending requests one after the other within one window.         *)
(***************************************************************************)
InitIds == InitFor({"ip1", "ip2"}, {1}, {[botToken |-> TRUE, chatId |-> TRUE]})

NextIds ==
    \/ \E r \in DOMAIN req, c \in DOMAIN general, p \in PostsQuota :
           Receive(r, c, p.route, p.body, GeneralMax + MaxRejected)
    \/ \E r \in DOMAIN req : SubmitLimiter(r, SubmitMax + MaxRejected)
    \/ \E r \in DOMAIN req : SubmitApplication(r)
    \/ \E r \in DOMAIN req : RequestCallback(r)
    \/ \E r \in DOMAIN req : Health(r)
    \/ \E r \in DOMAIN req : NotFound(r)
    \/ \E r \in DOMAIN req, o \in OutcomesRL : Deliver(r, o)

SpecIds == InitIds /\ [][NextIds]_vars


(***************************************************************************)
(* Properties.                                                             *)
(***************************************************************************)
\* The request of slot r is a submission whose handler has run.
Handled(r) == req[r].route \in SubmissionRoutes /\ req[r].validated

InvalidInput(r) == RouteErrors(req[r].route, req[r].body) # <<>>

\* C1: on every submission route a request whose input fails validation is
\* answered 400 with success:false, once, and no outbound send is ever made for it.
C1_InvalidRejectedUnsent ==
    \A r \in DOMAIN req :
        req[r].route \in SubmissionRoutes /\ InvalidInput(r)
        => /\ req[r].sends = 0
           /\ req[r].msg = NoMsg
           /\ Handled(r) => /\ req[r].pc = "done"
                            /\ req[r].status = 400
                            /\ req[r].success = "false"
                            /\ req[r].responses = 1

C1_Witness ==
    \E r \in DOMAIN req :
        /\ req[r].route = "request-wimax"
        /\ InvalidInput(r)
        /\ ~NotConfigured
        /\ req[r].pc = "done"
        /\ req[r].status = 400

\* C2: at most one outbound send is made per request; after a failed send (a
\* non-success status or a network failure) the handler is at its 500 response
\* with that one send, never at a second one.
C2_AtMostOneSend ==
    \A r \in DOMAIN req :
        /\ req[r].sends <= 1
        /\ req[r].outcome.kind \in {"notok", "network"}
           => /\ req[r].pc = "done"
              /\ req[r].status = 500
              /\ req[r].sends = 1

C2_Witness ==
    \E r \in DOMAIN req :
        /\ req[r].route = "request-callback"
        /\ req[r].outcome.kind = "network"
        /\ req[r].pc = "done"
        /\ req[r].sends = 1

\* C3: with the token or the chat identifier unset, a request whose input passes
\* validation is answered 500 with success:false and no send is attempted.
C3_UnconfiguredIs500 ==
    \A r \in DOMAIN req :
        Handled(r) /\ ~InvalidInput(r) /\ NotConfigured
        => /\ req[r].pc = "done"
           /\ req[r].status = 500
           /\ req[r].success = "false"
           /\ req[r].sends = 0

\* C4: a submission that has passed the rate limiters gets exactly one response,
\* whose success field is a boolean, whatever its JSON body; a fault in the
\* handler still ends in a response.
C4_ExactlyOneResponse ==
    \A r \in DOMAIN req :
        Handled(r)
        => /\ req[r].pc \in {"fetching", "done"}
           /\ req[r].responses <= 1
           /\ req[r].pc = "done" => /\ req[r].responses = 1
                                    /\ req[r].success \in {"true", "false"}

C10_SendTerminates ==
    \A r \in {1} : (req[r].pc = "fetching") ~> (req[r].pc = "done")


\* C5: for each policy and each client the requests let through the gate within
\* any interval of the window's length never number more than max.  The log
\* passed holds the passages of the last window's length.
C5_NoIntervalOverMax ==
    \A c \in DOMAIN general :
        /\ Len(passed.general[c]) <= GeneralMax
        /\ Len(passed.submit[c]) <= SubmitMax

\* The step in which the request of slot r passes submitLimiter.
AtSubmitLimiter(r) ==
    /\ req[r].pc = "routed"
    /\ req[r].route = "submit-application"
    /\ req'[r].pc # "routed"

\* The step in which a request arrives on the one connection of SpecRL.
Arrives(r) ==
    /\ DOMAIN req = {r}
    /\ now' = now
    /\ general' # general

\* The submission window of client c is running and c has had SubmitMax
\* requests admitted in it.
QuotaSpent(c) == submit[c].resetTime > now /\ submit[c].totalHits >= SubmitMax

\* C6, first half: a request reaching the submission policy while the quota of
\* the running window is spent is rejected.
C6_FourthRejected ==
    \A r \in DOMAIN req :
        AtSubmitLimiter(r) /\ QuotaSpent(req[r].client) => req'[r].status = 429

\* The quota of client c was spent and the window it was spent in has elapsed.
WindowElapsed(c) == spent[c] = "spent" /\ submit[c].resetTime <= now

\* C6 as claimed: once the window has elapsed the next submit-application
\* request of that identity is admitted: it is let through to the handler.
C6_AdmittedAfterWindow ==
    [][\A r \in DOMAIN req :
          /\ C6_FourthRejected
          /\ Arrives(r) /\ req'[r].route = "submit-application"
                /\ WindowElapsed(req'[r].client)
             => req'[r].pc = "routed"
          /\ AtSubmitLimiter(r) /\ WindowElapsed(req[r].client)
             => req'[r].pc = "handler"]_vars

\* C6: within the running 60-minute window the request after the third admitted
\* one is rejected; once the window has elapsed the next request that reaches
\* the submission policy is admitted by it, with a fresh 60-minute window.
C6_SubmitWindowResets ==
    [][\A r \in DOMAIN req :
          /\ C6_FourthRejected
          /\ AtSubmitLimiter(r) /\ WindowElapsed(req[r].client)
             => /\ req'[r].pc = "handler"
                /\ submit'[req[r].client] =
                       [totalHits |-> 1, resetTime |-> now + SubmitWindowMs]]_vars

C6_Witness ==
    \E r \in DOMAIN req :
        /\ req[r].pc = "handler"
        /\ spent[req[r].client] = "renewed"
        /\ submit[req[r].client].totalHits = 1
        /\ now >= SubmitWindowMs

\* C7: a request rejected by either rate-limit policy has its one response from
\* the limiter: it is not validated, no message is formatted and nothing is sent.
C7_LimitedSkipsHandler ==
    \A r \in DOMAIN req :
        req[r].status = 429
        => /\ req[r].pc = "done"
           /\ req[r].responses = 1
           /\ ~req[r].validated
           /\ req[r].msg = NoMsg
           /\ req[r].sends = 0

C7_Witness ==
    \E r, q \in DOMAIN req :
        /\ req[r].status = 429 /\ req[r].text = "too_many_requests"
        /\ req[q].status = 429 /\ req[q].text = "submit_limit_exceeded"
        /\ req[r].route = "submit-application"

\* The passages of log that fall in the running window of entry.
InWindow(log, entry, windowMs) ==
    {i \in 1..Len(log) : log[i] >= entry.resetTime - windowMs}

\* C8: whatever the interleaving of the concurrent requests of one client, no
\* more than max of them are admitted in one window of either policy.
C8_NoLostUpdate ==
    \A c \in DOMAIN general :
        /\ general[c].resetTime > now
           => Cardinality(InWindow(passed.general[c], general[c], GeneralWindowMs))
                  <= GeneralMax
        /\ submit[c].resetTime > now
           => Cardinality(InWindow(passed.submit[c], submit[c], SubmitWindowMs))
                  <= SubmitMax

C8_Witness ==
    \E r, q \in DOMAIN req :
        /\ req[r].pc = "fetching"
        /\ req[q].status = 429
        /\ req[q].client = req[r].client
        /\ general[req[r].client].totalHits > GeneralMax
        /\ Cardinality(InWindow(passed.general[req[r].client],
                                general[req[r].client], GeneralWindowMs)) = GeneralMax

\* The routes whose handler checks more than one field.
MultiFieldRoutes == SubmissionRoutes \ {"request-callback"}

\* The fields of each route's form, in the order its handler checks them.
FieldOrder(route) ==
    CASE route = "submit-application" ->
             <<"name", "phone", "address", "selectedTariff", "comment">>
      [] route = "submit-connection-request" ->
             <<"name", "phone", "address", "tariff", "comment">>
      [] route = "request-ngn-callback" -> <<"phone", "selectedTariff">>
      [] route = "request-wimax" -> <<"name", "phone">>
      [] OTHER -> <<"phone">>

\* The condition under which validateSubmissionData reports field f.
ApplicationFieldInvalid(f, b) ==
    CASE f = "name" -> LooseNameInvalid(b.name) \/ ~NameRegex(b.name.s)
      [] f = "phone" -> \/ ~Truthy(b.phone) \/ ~IsString(b.phone)
                        \/ ~IsMobilePhone(StripNonDigitsPlus(b.phone.s))
      [] f = "address" -> \/ ~Truthy(b.address) \/ ~IsString(b.address)
                          \/ Len(b.address.s) < AddressMinLen
                          \/ Len(b.address.s) > AddressMaxLen
      [] f = "selectedTariff" -> ~Truthy(b.selectedTariff)
      [] OTHER -> /\ Truthy(b.comment) /\ IsString(b.comment)
                  /\ Len(b.comment.s) > CommentMaxLen

\* The condition of each if statement of submit-connection-request.
ConnectionFieldInvalid(f, b) ==
    CASE f = "name" -> LooseNameInvalid(b.name)
      [] f = "phone" -> LoosePhoneInvalid(b.phone)
      [] f = "address" -> \/ ~Truthy(b.address) \/ ~IsString(b.address)
                          \/ Len(b.address.s) < AddressMinLen
                          \/ Len(b.address.s) > AddressMaxLen
      [] f = "tariff" -> ~Truthy(b.tariff) \/ ~IsString(b.tariff)
      [] OTHER -> /\ Truthy(b.comment) /\ IsString(b.comment)
                  /\ Len(b.comment.s) > CommentMaxLen

\* The conditions of the two if statements of request-ngn-callback.
NgnFieldInvalid(f, b) ==
    IF f = "phone" THEN LoosePhoneInvalid(b.phone)
    ELSE ~Truthy(b.selectedTariff) \/ ~IsString(b.selectedTariff)

\* The conditions of the two if statements of request-wimax.
WimaxFieldInvalid(f, b) ==
    IF f = "name" THEN LooseNameInvalid(b.name) ELSE LoosePhoneInvalid(b.phone)

FieldInvalid(route, f, b) ==
    CASE route = "submit-application" -> ApplicationFieldInvalid(f, b)
      [] route = "submit-connection-request" -> ConnectionFieldInvalid(f, b)
      [] route = "request-ngn-callback" -> NgnFieldInvalid(f, b)
      [] route = "request-wimax" -> WimaxFieldInvalid(f, b)
      [] OTHER -> LoosePhoneInvalid(b.phone)

\* The invalid fields of a body, in field declaration order.
InvalidFields(route, b) ==
    LET Bad(f) == FieldInvalid(route, f, b)
    IN  SelectSeq(FieldOrder(route), Bad)

\* The field a violation message is about.
FieldOf(violation) ==
    CASE violation \in {"name_required", "name_length", "name_chars",
                        "name_invalid", "enter_valid_name"} -> "name"
      [] violation \in {"phone_required", "phone_invalid", "enter_valid_phone"}
             -> "phone"
      [] violation \in {"address_required", "address_length", "address_invalid"}
             -> "address"
      [] violation \in {"tariff_required", "choose_tariff"} -> "selectedTariff"
      [] violation = "tariff_missing" -> "tariff"
      [] violation \in {"comment_length", "comment_too_long"} -> "comment"
      [] OTHER -> "none"

\* The violations a 400 response carries: its details list, or its one error.
Violations(rq) ==
    IF rq.text = "validation_error" THEN rq.details ELSE <<rq.text>>

\* C11: on every route that checks more than one field, a rejected request is
\* answered with one violation for each invalid field, in field declaration
\* order: no check is skipped because an earlier one failed.
C11_OneViolationPerInvalidField ==
    \A r \in DOMAIN req :
        Handled(r) /\ req[r].route \in MultiFieldRoutes /\ req[r].status = 400
        => [i \in 1..Len(Violations(req[r])) |-> FieldOf(Violations(req[r])[i])]
               = InvalidFields(req[r].route, req[r].body)

\* C12: for every input in which the route's validation finds no violation,
\* the sanitize step of the handler returns: it never raises.
C12_SanitizeTotal ==
    \A r \in DOMAIN req :
        Handled(r) /\ ~InvalidInput(r) => req[r].sanitized = "ok"

\* The error string of each route's catch block.
GenericError(route) ==
    CASE route = "submit-application" -> "application_failed"
      [] route = "submit-connection-request" -> "telegram_send_error"
      [] OTHER -> "error_sending_to_telegram"

\* The send of request r failed: a non-success status or a network failure.
DeliveryFailed(r) ==
    /\ req[r].pc = "done"
    /\ req[r].sends = 1
    /\ req[r].outcome.kind \in {"notok", "network"}

\* C13: when delivery fails the response is the fixed generic 500 of the route:
\* it is determined by the route alone, so that two runs of one request that
\* differ in the service's error description or in the kind of network failure
\* are answered identically.
C13_GenericErrorOnFailure ==
    \A r \in DOMAIN req :
        DeliveryFailed(r)
        => /\ req[r].responses = 1
           /\ req[r].status = 500
           /\ req[r].success = "false"
           /\ req[r].text = GenericError(req[r].route)
           /\ req[r].details = <<>>

C13_Witness ==
    \E r \in DOMAIN req :
        /\ DeliveryFailed(r)
        /\ req[r].route = "submit-application"
        /\ req[r].outcome.description = "Forbidden"
        /\ req[r].status = 500

\* C14: a handled submission is answered 200 with success:true exactly when its
\* one outbound send returned a success status: a delivered message is never
\* reported as a failure and no success is reported without such a send.
C14_SuccessIffDelivered ==
    \A r \in DOMAIN req :
        Handled(r) /\ req[r].pc = "done"
        => ((req[r].status = 200 /\ req[r].success = "true")
               <=> (req[r].sends = 1 /\ req[r].outcome.kind = "ok"))

\* The field of the request body that a line of the message shows: the
\* templates of submit-application and request-ngn-callback show selectedTariff
\* on their tariff line.
BodyField(route, f) ==
    IF f = "tariff" /\ route \in {"submit-application", "request-ngn-callback"}
    THEN "selectedTariff"
    ELSE f

Markup == {"<", ">"}

\* The value on a line of the message is what trim and xss make of the field
\* the client sent, or, on the comment line of a request without comment text,
\* the placeholder of the template.
FromSanitizer(route, line, b) ==
    LET raw == b[BodyField(route, line[1])]
    IN  \/ IsString(raw) /\ line[2] = XssChars(Trim(raw.s))
        \/ /\ line[1] = "comment"
           /\ line[2] \in {CommentPlaceholder, CleanCommentPlaceholder}
           /\ ~Truthy(raw) \/ Trim(raw.s) = <<>>

\* C15: whenever a message has been formatted, the request has passed
\* validation and its sanitize step has returned, and every field value in the
\* message is the sanitizer's output for the field the client sent, free of
\* markup characters: no raw request value is in a message or in a send.
C15_OnlySanitizedInMessage ==
    \A r \in DOMAIN req :
        req[r].msg # NoMsg
        => /\ req[r].validated
           /\ ~InvalidInput(r)
           /\ req[r].sanitized = "ok"
           /\ \A i \in 1..Len(req[r].msg.fields) :
                  LET line == req[r].msg.fields[i]
                  IN  /\ ~FieldInvalid(req[r].route,
                                       BodyField(req[r].route, line[1]), req[r].body)
                      /\ FromSanitizer(req[r].route, line, req[r].body)
                      /\ \A j \in 1..Len(line[2]) : line[2][j] \notin Markup

C15_Witness ==
    \E r \in DOMAIN req :
        /\ req[r].pc = "fetching"
        /\ req[r].msg.kind = "connection"
        /\ req[r].body.comment = MarkupComment

\* The values the message of request r shows on its comment lines.
CommentLines(r) ==
    {req[r].msg.fields[i][2] :
        i \in {j \in 1..Len(req[r].msg.fields) : req[r].msg.fields[j][1] = "comment"}}

\* C16: the message of a full-form route has one comment line and its value is
\* not empty: the sanitized comment when the client supplied comment text, the
\* placeholder when the comment is absent, empty or only whitespace.
C16_CommentLineNonEmpty ==
    \A r \in DOMAIN req :
        req[r].msg.kind \in {"application", "connection"}
        => /\ Cardinality(CommentLines(r)) = 1
           /\ \A value \in CommentLines(r) :
                  /\ value # <<>>
                  /\ LET raw == req[r].body.comment
                     IN  IF Truthy(raw) /\ Trim(raw.s) # <<>>
                         THEN value = XssChars(Trim(raw.s))
                         ELSE value \in {CommentPlaceholder, CleanCommentPlaceholder}

\* The step in which a new request takes slot r.
Arrived(r) ==
    /\ req[r].pc \in {"idle", "done"}
    /\ now' = now
    /\ req'[r] # req[r] \/ general' # general

\* C17: the counters are independent.  The arrival of a request changes no
\* submission counter and no general counter of another identity, also when
\* the general policy rejects it; a submission counter changes only for a
\* submit-application request that the general policy let through and that has
\* no response yet, and then only the counter of that request's identity; and
\* no step of a request to another route changes a submission counter.
C17_IndependentCounters ==
    [][now' = now
       => /\ \A r \in DOMAIN req :
                 Arrived(r)
                 => /\ submit' = submit
                    /\ \A c \in DOMAIN general \ {req'[r].client} :
                           general'[c] = general[c]
          /\ submit' # submit
             => \E r \in DOMAIN req :
                    /\ req[r].pc = "routed"
                    /\ req[r].route = "submit-application"
                    /\ req[r].responses = 0
                    /\ general' = general
                    /\ \A c \in DOMAIN submit \ {req[r].client} :
                           submit'[c] = submit[c]
          /\ \A r \in DOMAIN req :
                 req'[r] # req[r] /\ req'[r].route # "submit-application"
                 => submit' = submit]_vars

C17_Witness ==
    \E r \in DOMAIN req :
        /\ req[r].route = "submit-application"
        /\ req[r].status = 429
        /\ req[r].text = "too_many_requests"
        /\ req[r].client = "ip1"
        /\ general["ip1"].totalHits > GeneralMax
        /\ submit["ip1"].totalHits = 1
        /\ general["ip2"].totalHits = 1
        /\ submit["ip2"].totalHits = 0

\* The general window of client c is running and GeneralMax requests have
\* been counted in it.
GeneralQuotaSpent(c) ==
    general[c].resetTime > now /\ general[c].totalHits >= GeneralMax

====
